---- MODULE Spec2Model ----
(***************************************************************************)
(* A model of simple-smtp: the SMTP-like protocol state machine MailFSM    *)
(* (src/src/email.rs), the connection handler loop (src/src/lib.rs) and    *)
(* the worker pool that main (src/src/main.rs) dispatches connections to.  *)
(* Lines and responses are strings, handled character by character the way *)
(* the Rust code handles them (trim, to_uppercase, starts_with, slicing).  *)
(***************************************************************************)
EXTENDS Naturals, Sequences, FiniteSets, TLC

VARIABLES
    current_state,  \* MailFSM.current_state
    server_name,    \* MailFSM.server_name
    mail,           \* MailFSM.mail: [helo, mail_from, rcpt_to, data]
    line,           \* the argument of the last process_line call (<<>>: none yet)
    ret,            \* what the last process_line call returned (Option<String>)
    accepted,       \* the protocol commands process_line has accepted so far
    banner,         \* what the last greeting() call returned (<<>>: none yet)
    sent,           \* session driver: the kinds of the lines fed so far
    body,           \* session driver: the body lines fed so far, concatenated
    args,           \* session driver: the arguments supplied so far
    resps,          \* session driver: the responses received so far
    fin,            \* session driver: is_finished() after each line
    pc,             \* handle_connection: the statement the handler is at
    inbox,          \* the connection: lines the client sent, not yet read
    closed,         \* the connection: the client closed its sending side
    nsent,          \* the connection: lines the client sent so far
    data_size,      \* handle_connection: what the last read_line returned (<<>>: none yet)
    buf,            \* handle_connection: the line the last read_line read
    msg,            \* handle_connection: the response of the last process_line
    wbuf,           \* handle_connection: BufWriter's buffer, written, not flushed
    wire,           \* the connection: what was flushed to the client, in order
    returned,       \* what process_line returned for each line read so far, in order
    pool_size,      \* ThreadPool: the number of workers it was built with
    queue,          \* ThreadPool: the jobs submitted and not yet taken, in order
    worker,         \* ThreadPool: the job each worker is running (0: none, it waits)
    job,            \* each job submitted: "pending", "running", "done" or "failed"
    released,       \* the jobs whose connection has ended: they no longer block
    teardown,       \* ThreadPool: teardown is "no"t invoked, has "begun", has "returned"
    gone,           \* ThreadPool: the workers whose thread has ended
    in_progress,    \* the jobs that were running when teardown began
    submitted_then  \* the number of jobs submitted before teardown began

fsmVars == <<current_state, server_name, mail, line, ret, accepted, banner>>
drvVars == <<sent, body, args, resps, fin>>
connVars == <<pc, inbox, closed, nsent, data_size, buf, msg, wbuf, wire, returned>>
poolVars == <<pool_size, queue, worker, job, released, teardown, gone, in_progress,
             submitted_then>>
vars == <<fsmVars, drvVars, connVars, poolVars>>

----------------------------------------------------------------------------
(* Bounds of the model.                                                    *)

MaxRcpt == 2      \* entries of rcpt_to
MaxDataLen == 7   \* characters of data
MaxBody == 2      \* body lines of a driven session
MaxInput == 6     \* lines a client sends on a connection
MaxPending == 1   \* lines sent and not yet read
MaxJobs == 6      \* connections accepted, each submitted to the pool as a job

----------------------------------------------------------------------------
(* Strings.                                                                *)

None == <<>>
Some(x) == <<x>>

Char(s, i) == SubSeq(s, i, i)

\* char::is_whitespace, on the ASCII characters of a line
is_whitespace(c) == c \in {" ", "\t", "\n", "\r"}

RECURSIVE first_kept(_, _)
\* the place of the first character from i on that is not whitespace
first_kept(s, i) ==
    IF i <= Len(s) /\ is_whitespace(Char(s, i)) THEN first_kept(s, i + 1) ELSE i

RECURSIVE last_kept(_, _)
\* the place of the last character up to i that is not whitespace
last_kept(s, i) ==
    IF i >= 1 /\ is_whitespace(Char(s, i)) THEN last_kept(s, i - 1) ELSE i

\* str::trim
trim(s) == SubSeq(s, first_kept(s, 1), last_kept(s, Len(s)))

LowerCase == "abcdefghijklmnopqrstuvwxyz"
UpperCase == "ABCDEFGHIJKLMNOPQRSTUVWXYZ"

\* the upper-case letter of each lower-case ASCII letter
UpperOf ==
    [c \in {Char(LowerCase, i) : i \in 1..26} |->
        Char(UpperCase, CHOOSE i \in 1..26 : Char(LowerCase, i) = c)]

\* char::to_uppercase, on ASCII
char_to_uppercase(c) == IF c \in DOMAIN UpperOf THEN UpperOf[c] ELSE c

RECURSIVE upper_from(_, _)
\* the characters of s from place i on, each in upper case
upper_from(s, i) ==
    IF i > Len(s) THEN ""
    ELSE char_to_uppercase(Char(s, i)) \o upper_from(s, i + 1)

\* A to_uppercase that leaves the letters as they are.
to_uppercase_keeps_case(s) == s

\* str::to_uppercase
to_uppercase(s) == upper_from(s, 1)

\* str::starts_with
starts_with(s, p) == Len(s) >= Len(p) /\ SubSeq(s, 1, Len(p)) = p

\* the slice s[n..]
slice_from(s, n) == SubSeq(s, n + 1, Len(s))

Digits == "0123456789"

RECURSIVE fmt_usize(_)
\* usize's Display: decimal, no padding
fmt_usize(n) ==
    IF n < 10 THEN Char(Digits, n + 1)
    ELSE fmt_usize(n \div 10) \o Char(Digits, (n % 10) + 1)

----------------------------------------------------------------------------
(* Mail (src/src/email.rs).                                                *)

\* Mail::new
MailNew == [helo |-> None, mail_from |-> None, rcpt_to |-> <<>>, data |-> None]

add_hello(m, hello) == [m EXCEPT !.helo = Some(trim(hello))]

add_mail_from(m, mail_from) == [m EXCEPT !.mail_from = Some(trim(mail_from))]

\* An add_rcpt_to that skips a recipient it already holds.
add_rcpt_to_once(m, rcpt_to) ==
    IF \E i \in 1..Len(m.rcpt_to) : m.rcpt_to[i] = trim(rcpt_to)
    THEN m
    ELSE [m EXCEPT !.rcpt_to = Append(@, trim(rcpt_to))]

add_rcpt_to(m, rcpt_to) == [m EXCEPT !.rcpt_to = Append(@, trim(rcpt_to))]

\* An add_data_chunk that puts a newline between the chunks.
add_data_chunk_delimits(m, data_chunk) ==
    [m EXCEPT !.data = IF m.data = None THEN Some(data_chunk)
                       ELSE Some(m.data[1] \o "\n" \o data_chunk)]

add_data_chunk(m, data_chunk) ==
    IF m.data = None
    THEN [m EXCEPT !.data = Some(data_chunk)]
    ELSE [m EXCEPT !.data = Some(@[1] \o data_chunk)]

\* self.mail.data.as_ref().unwrap_or(&String::from("")).len()
data_len(m) == IF m.data = None THEN 0 ELSE Len(m.data[1])

----------------------------------------------------------------------------
(* MailFSM (src/src/email.rs).                                             *)

States == <<"New", "Hello", "MailFrom", "RcptTo", "Data", "Quit">>

HELO == "HELO"
EHLO == "EHLO"
MAIL_FROM == "MAIL FROM:"
RCPT_TO == "RCPT TO:"
DATA == "DATA"
QUIT == "QUIT"
DOT == "."

\* A MAIL FROM guard that holds in every state.
is_mail_from_arm_any_state(st, curated_line) == starts_with(curated_line, MAIL_FROM)

\* A HELO arm that forgets to test the state.
is_helo_arm_any_state(st, curated_line) ==
    starts_with(curated_line, HELO) \/ starts_with(curated_line, EHLO)

\* The guards of the match arms of process_line, in the order of the match;
\* curated_line is line.trim().to_uppercase(), trimmed is line.trim().
is_helo_arm(st, curated_line) ==
    st = "New" /\ (starts_with(curated_line, HELO) \/ starts_with(curated_line, EHLO))

is_mail_from_arm(st, curated_line) == st = "Hello" /\ starts_with(curated_line, MAIL_FROM)

is_first_rcpt_arm(st, curated_line) == st = "MailFrom" /\ starts_with(curated_line, RCPT_TO)

is_next_rcpt_arm(st, curated_line) == st = "RcptTo" /\ starts_with(curated_line, RCPT_TO)

\* A DATA guard that holds in MailFrom too, before any RCPT TO.
is_data_arm_without_rcpt(st, curated_line) ==
    st \in {"MailFrom", "RcptTo"} /\ starts_with(curated_line, DATA)

is_data_arm(st, curated_line) == st = "RcptTo" /\ starts_with(curated_line, DATA)

is_dot_arm(st, trimmed) == st = "Data" /\ trimmed = DOT

\* A QUIT arm that forgets to test the state.
is_quit_arm_any_state(st, curated_line) == starts_with(curated_line, QUIT)

is_quit_arm(st, curated_line) == st = "Data" /\ starts_with(curated_line, QUIT)

is_chunk_arm(st) == st = "Data"

\* The bodies of the match arms: the next state, the envelope and the return value.
arm_helo(st, m, sn, l) ==
    [state |-> "Hello",
     mail  |-> add_hello(m, slice_from(trim(l), Len(HELO))),
     ret   |-> Some("250 " \o sn \o "\n"),
     arm   |-> "HELO"]

arm_mail_from(st, m, sn, l) ==
    [state |-> "MailFrom",
     mail  |-> add_mail_from(m, slice_from(trim(l), Len(MAIL_FROM))),
     ret   |-> Some("250 Ok\n"),
     arm   |-> "MAIL FROM"]

arm_first_rcpt(st, m, sn, l) ==
    [state |-> "RcptTo",
     mail  |-> add_rcpt_to(m, slice_from(trim(l), Len(RCPT_TO))),
     ret   |-> Some("250 Ok\n"),
     arm   |-> "RCPT TO"]

arm_next_rcpt(st, m, sn, l) ==
    [state |-> st,
     mail  |-> add_rcpt_to(m, slice_from(trim(l), Len(RCPT_TO))),
     ret   |-> Some("250 Ok\n"),
     arm   |-> "RCPT TO"]

arm_data(st, m, sn, l) ==
    [state |-> "Data",
     mail  |-> add_rcpt_to(m, slice_from(trim(l), Len(DATA))),
     ret   |-> Some("354 End data with <CR><LF>.<CR><LF>\n"),
     arm   |-> "DATA"]

\* A dot arm that counts the dot line itself.
arm_dot_counts_line(st, m, sn, l) ==
    [state |-> st,
     mail  |-> m,
     ret   |-> Some("250 Ok: queued as " \o fmt_usize(data_len(m) + Len(l)) \o "\n"),
     arm   |-> "DOT"]

arm_dot(st, m, sn, l) ==
    [state |-> st,
     mail  |-> m,
     ret   |-> Some("250 Ok: queued as " \o fmt_usize(data_len(m)) \o "\n"),
     arm   |-> "DOT"]

arm_quit(st, m, sn, l) ==
    [state |-> "Quit",
     mail  |-> m,
     ret   |-> Some("221 Bye\n"),
     arm   |-> "QUIT"]

\* A body arm that acknowledges each line.
arm_chunk_answers(st, m, sn, l) ==
    [state |-> st,
     mail  |-> add_data_chunk(m, l),
     ret   |-> Some("250 Ok\n"),
     arm   |-> "CHUNK"]

\* A body arm that appends the trimmed line.
arm_chunk_trims(st, m, sn, l) ==
    [state |-> st,
     mail  |-> add_data_chunk(m, trim(l)),
     ret   |-> None,
     arm   |-> "CHUNK"]

arm_chunk(st, m, sn, l) ==
    [state |-> st,
     mail  |-> add_data_chunk(m, l),
     ret   |-> None,
     arm   |-> "CHUNK"]

\* A catch-all arm that starts the envelope over.
arm_unknown_clears(st, m, sn, l) ==
    [state |-> st,
     mail  |-> MailNew,
     ret   |-> Some("Unknown command"),
     arm   |-> "UNKNOWN"]

arm_unknown(st, m, sn, l) ==
    [state |-> st,
     mail  |-> m,
     ret   |-> Some("Unknown command"),
     arm   |-> "UNKNOWN"]

\* MailFSM::process_line: the first arm whose guard holds.
process_line(st, m, sn, l) ==
    LET trimmed == trim(l)
        curated_line == to_uppercase(trimmed)
    IN  IF is_helo_arm(st, curated_line) THEN arm_helo(st, m, sn, l)
        ELSE IF is_mail_from_arm(st, curated_line) THEN arm_mail_from(st, m, sn, l)
        ELSE IF is_first_rcpt_arm(st, curated_line) THEN arm_first_rcpt(st, m, sn, l)
        ELSE IF is_next_rcpt_arm(st, curated_line) THEN arm_next_rcpt(st, m, sn, l)
        ELSE IF is_data_arm(st, curated_line) THEN arm_data(st, m, sn, l)
        ELSE IF is_dot_arm(st, trimmed) THEN arm_dot(st, m, sn, l)
        ELSE IF is_quit_arm(st, curated_line) THEN arm_quit(st, m, sn, l)
        ELSE IF is_chunk_arm(st) THEN arm_chunk(st, m, sn, l)
        ELSE arm_unknown(st, m, sn, l)

\* MailFSM::is_finished
is_finished(st) == st = "Quit"

\* MailFSM::greeting
greeting(sn) == "220 " \o sn \o " simple-smtp\n"

----------------------------------------------------------------------------
(* The machine under arbitrary calls: any line in any state, and greeting() *)
(* at any time.                                                             *)

\* MailFSM::new's argument: lib.rs serves as my.server, the test as test.server.
ServerNames == {"my.server", "test.server"}

\* The lines fed to process_line: every keyword in several letter cases, with
\* and without argument, surrounding whitespace and newline; body text; the
\* terminating dot; a keyword the table does not know.
Lines ==
    {"HELO a\n", "ehlo Bob\n", "MAIL FROM: x\n", "mail from:Y", "RCPT TO: y\n",
     " rcpt to:Z \n", "DATA\n", "data y\n", "hi\n", "ab", ".\n", " . \n",
     "QUIT\n", "quit", "NOOP\n"}

\* The protocol commands, as opposed to the body lines and the rejected lines.
Commands == {"HELO", "MAIL FROM", "RCPT TO", "DATA", "DOT", "QUIT"}

DriverIdle ==
    /\ sent = <<>>
    /\ body = ""
    /\ args = MailNew
    /\ resps = <<>>
    /\ fin = <<>>

\* No connection is being handled.
ConnIdle ==
    /\ pc = "idle"
    /\ inbox = <<>>
    /\ closed = FALSE
    /\ nsent = 0
    /\ data_size = None
    /\ buf = ""
    /\ msg = None
    /\ wbuf = <<>>
    /\ wire = <<>>
    /\ returned = <<>>

\* A fresh machine serving as sn.
Fresh(sn) ==
    /\ current_state = "New"
    /\ server_name = sn
    /\ mail = MailNew
    /\ line = None
    /\ ret = None
    /\ accepted = {}
    /\ banner = None

\* No pool was built.
PoolIdle ==
    /\ pool_size = 0
    /\ queue = <<>>
    /\ worker = <<>>
    /\ job = <<>>
    /\ released = {}
    /\ teardown = "no"
    /\ gone = {}
    /\ in_progress = {}
    /\ submitted_then = 0

\* MailFSM::new
Init ==
    /\ \E sn \in ServerNames : Fresh(sn)
    /\ DriverIdle
    /\ ConnIdle
    /\ PoolIdle

\* One call of process_line on the machine.
Call(l) ==
    \E r \in {process_line(current_state, mail, server_name, l)} :
        /\ current_state' = r.state
        /\ mail' = r.mail
        /\ ret' = r.ret
        /\ line' = Some(l)
        /\ accepted' = accepted \cup ({r.arm} \cap Commands)
        /\ UNCHANGED <<server_name, banner>>

\* The envelope stays within the bounds of the model after line l.
WithinBounds(l) ==
    \E r \in {process_line(current_state, mail, server_name, l)} :
        /\ Len(r.mail.rcpt_to) <= MaxRcpt
        /\ data_len(r.mail) <= MaxDataLen

ProcessLine(l) ==
    /\ WithinBounds(l)
    /\ Call(l)
    /\ UNCHANGED <<drvVars, connVars, poolVars>>

\* A greeting() that marks the client as greeted.
GreetingAdvances ==
    /\ banner' = Some(greeting(server_name))
    /\ current_state' = "Hello"
    /\ UNCHANGED <<server_name, mail, line, ret, accepted>>
    /\ UNCHANGED <<drvVars, connVars, poolVars>>

\* One call of greeting(): a &self method, it returns the banner.
Greeting ==
    /\ banner' = Some(greeting(server_name))
    /\ UNCHANGED <<current_state, server_name, mail, line, ret, accepted>>
    /\ UNCHANGED <<drvVars, connVars, poolVars>>

Next ==
    \/ \E l \in Lines : ProcessLine(l)
    \/ Greeting

Spec == Init /\ [][Next]_vars

TypeOK ==
    /\ \E i \in 1..Len(States) : States[i] = current_state
    /\ server_name \in ServerNames
    /\ Len(mail.rcpt_to) <= MaxRcpt
    /\ data_len(mail) <= MaxDataLen

----------------------------------------------------------------------------
(* A driven session, as test_mail_fsm drives one: HELO/EHLO, MAIL FROM:,    *)
(* RCPT TO: (one or more), DATA, body lines, the dot, QUIT, on a fresh      *)
(* machine. The driver builds each command line from a keyword, a separator,*)
(* an argument and a line end, and keeps what it supplied and what it got.  *)

Cmd(kw, sep, arg, eol) == [text |-> kw \o sep \o arg \o eol, arg |-> arg]

HeloCmds == {Cmd("HELO", " ", "a", "\n"), Cmd("ehlo", " ", "Bob", "\r\n")}
MailCmds == {Cmd("MAIL FROM:", " ", "x", "\n"), Cmd("mail from:", "", "Y@z", "")}
RcptCmds == {Cmd("RCPT TO:", " ", "y", "\n"), Cmd("rcpt to:", "", "Z", " \n")}
DataCmds == {Cmd("DATA", "", "", "\n"), Cmd("data", "", "", "\r\n")}
DotCmds  == {Cmd(".", "", "", "\n"), Cmd(" .", "", "", " ")}
QuitCmds == {Cmd("QUIT", "", "", "\n"), Cmd("quit", "", "", "")}
\* Body lines: lines that are neither the dot nor a QUIT command.
BodyLines == {"hi\n", "qwert\n", "HELO a\n"}

Last(q) == IF q = <<>> THEN "none" ELSE q[Len(q)]

Count(q, k) == Cardinality({i \in 1..Len(q) : q[i] = k})

\* Feed one line of kind k to process_line and keep the answer.
Feed(k, text) ==
    /\ Call(text)
    /\ sent' = Append(sent, k)
    /\ resps' = Append(resps, ret')
    /\ fin' = Append(fin, is_finished(current_state'))
    /\ UNCHANGED <<connVars, poolVars>>

FeedHelo ==
    /\ sent = <<>>
    /\ \E c \in HeloCmds :
          /\ Feed("helo", c.text)
          /\ args' = [args EXCEPT !.helo = Some(c.arg)]
    /\ UNCHANGED body

FeedMail ==
    /\ Last(sent) = "helo"
    /\ \E c \in MailCmds :
          /\ Feed("mail", c.text)
          /\ args' = [args EXCEPT !.mail_from = Some(c.arg)]
    /\ UNCHANGED body

FeedRcpt ==
    /\ Last(sent) \in {"mail", "rcpt"}
    /\ Count(sent, "rcpt") < MaxRcpt
    /\ \E c \in RcptCmds :
          /\ Feed("rcpt", c.text)
          /\ args' = [args EXCEPT !.rcpt_to = Append(@, c.arg)]
    /\ UNCHANGED body

FeedData ==
    /\ Last(sent) = "rcpt"
    /\ \E c \in DataCmds : Feed("data", c.text)
    /\ UNCHANGED <<body, args>>

FeedBody ==
    /\ Last(sent) \in {"data", "body"}
    /\ Count(sent, "body") < MaxBody
    /\ \E l \in BodyLines :
          /\ Feed("body", l)
          /\ body' = body \o l
          /\ args' = [args EXCEPT !.data = Some(body \o l)]

FeedDot ==
    /\ Last(sent) \in {"data", "body"}
    /\ \E c \in DotCmds : Feed("dot", c.text)
    /\ UNCHANGED <<body, args>>

FeedQuit ==
    /\ Last(sent) = "dot"
    /\ \E c \in QuitCmds : Feed("quit", c.text)
    /\ UNCHANGED <<body, args>>

NextSession ==
    \/ FeedHelo
    \/ FeedMail
    \/ FeedRcpt
    \/ FeedData
    \/ FeedBody
    \/ FeedDot
    \/ FeedQuit

SpecSession == Init /\ [][NextSession]_vars

----------------------------------------------------------------------------
(* handle_connection (src/src/lib.rs): one connection, its client and the   *)
(* handler thread. The client sends lines and closes when it likes; the     *)
(* handler reads them one at a time. An I/O call that returns Err panics    *)
(* the handler (unwrap, expect).                                            *)

ConnLines ==
    {"HELO a\n", "MAIL FROM: x\n", "RCPT TO: y\n", "DATA\n", "hi\n", ".\n", "QUIT\n"}

\* let mut mail_fsm = email::MailFSM::new(String::from("my.server"));
InitConn ==
    /\ Fresh("my.server")
    /\ DriverIdle
    /\ pc = "greet"
    /\ inbox = <<>>
    /\ closed = FALSE
    /\ nsent = 0
    /\ data_size = None
    /\ buf = ""
    /\ msg = None
    /\ wbuf = <<>>
    /\ wire = <<>>
    /\ returned = <<>>
    /\ PoolIdle

\* The client sends a line; it waits in the socket until the handler reads it.
ClientSend(l) ==
    /\ ~closed
    /\ nsent < MaxInput
    /\ Len(inbox) < MaxPending
    /\ inbox' = Append(inbox, l)
    /\ nsent' = nsent + 1
    /\ UNCHANGED <<fsmVars, drvVars, poolVars, pc, closed, data_size, buf, msg, wbuf, wire,
                   returned>>

\* The client closes its sending side: the input is finite.
ClientClose ==
    /\ ~closed
    /\ closed' = TRUE
    /\ UNCHANGED <<fsmVars, drvVars, poolVars, pc, inbox, nsent, data_size, buf, msg, wbuf, wire,
                   returned>>

\* writer.write(&mail_fsm.greeting().as_bytes()[..]).unwrap();
WriteGreeting ==
    /\ pc = "greet"
    /\ banner' = Some(greeting(server_name))
    /\ wbuf' = Append(wbuf, greeting(server_name))
    /\ pc' = "greet_flush"
    /\ UNCHANGED <<current_state, server_name, mail, line, ret, accepted>>
    /\ UNCHANGED <<drvVars, poolVars, inbox, closed, nsent, data_size, buf, msg, wire,
                   returned>>

\* writer.flush().unwrap();
FlushGreeting ==
    /\ pc = "greet_flush"
    /\ wire' = wire \o wbuf
    /\ wbuf' = <<>>
    /\ pc' = "read"
    /\ UNCHANGED <<fsmVars, drvVars, poolVars, inbox, closed, nsent, data_size, buf, msg,
                   returned>>

\* read_line returned a line: data_size is its length, not 0.
ReadLine ==
    /\ pc = "read"
    /\ inbox # <<>>
    /\ buf' = Head(inbox)
    /\ data_size' = Some(Len(Head(inbox)))
    /\ inbox' = Tail(inbox)
    /\ pc' = "process"
    /\ UNCHANGED <<fsmVars, drvVars, poolVars, closed, nsent, msg, wbuf, wire,
                   returned>>

\* read_line returned 0 at the end of the input: if data_size == 0 { break; }
ReadEof ==
    /\ pc = "read"
    /\ inbox = <<>>
    /\ closed
    /\ buf' = ""
    /\ data_size' = Some(0)
    /\ pc' = "done"
    /\ UNCHANGED <<fsmVars, drvVars, poolVars, inbox, closed, nsent, msg, wbuf, wire,
                   returned>>

\* if let Some(msg) = mail_fsm.process_line(&buf) { ... } else { ... }
Process ==
    /\ pc = "process"
    /\ Call(buf)
    /\ msg' = ret'
    /\ returned' = Append(returned, ret')
    /\ pc' = IF ret' # None THEN "write" ELSE "check"
    /\ UNCHANGED <<drvVars, poolVars, inbox, closed, nsent, data_size, buf, wbuf, wire>>

\* writer.write(&msg.as_bytes()[..]).expect("Unable to write to stream");
WriteMsg ==
    /\ pc = "write"
    /\ wbuf' = Append(wbuf, msg[1])
    /\ pc' = "flush"
    /\ UNCHANGED <<fsmVars, drvVars, poolVars, inbox, closed, nsent, data_size, buf, msg, wire,
                   returned>>

\* A flush that leaves the response in the buffer of the writer.
FlushMsgKeepsBuffer ==
    /\ pc = "flush"
    /\ pc' = "check"
    /\ UNCHANGED <<fsmVars, drvVars, poolVars, inbox, closed, nsent, data_size, buf, msg,
                   wbuf, wire, returned>>

\* writer.flush().unwrap();
FlushMsg ==
    /\ pc = "flush"
    /\ wire' = wire \o wbuf
    /\ wbuf' = <<>>
    /\ pc' = "check"
    /\ UNCHANGED <<fsmVars, drvVars, poolVars, inbox, closed, nsent, data_size, buf, msg,
                   returned>>

\* A check that goes on reading whatever the machine says.
CheckNeverBreaks ==
    /\ pc = "check"
    /\ pc' = "read"
    /\ UNCHANGED <<fsmVars, drvVars, poolVars, inbox, closed, nsent, data_size, buf, msg, wbuf, wire,
                   returned>>

\* if mail_fsm.is_finished() { break; }
Check ==
    /\ pc = "check"
    /\ pc' = IF is_finished(current_state) THEN "done" ELSE "read"
    /\ UNCHANGED <<fsmVars, drvVars, poolVars, inbox, closed, nsent, data_size, buf, msg, wbuf, wire,
                   returned>>

\* A write, a flush or a read_line returns Err: unwrap or expect panics.
IoError ==
    /\ pc \in {"greet", "greet_flush", "read", "write", "flush"}
    /\ pc' = "panicked"
    /\ UNCHANGED <<fsmVars, drvVars, poolVars, inbox, closed, nsent, data_size, buf, msg, wbuf, wire,
                   returned>>

\* The steps of the handler thread that succeed.
HandlerStep ==
    \/ WriteGreeting
    \/ FlushGreeting
    \/ ReadLine
    \/ ReadEof
    \/ Process
    \/ WriteMsg
    \/ FlushMsg
    \/ Check

NextConn ==
    \/ \E l \in ConnLines : ClientSend(l)
    \/ ClientClose
    \/ HandlerStep
    \/ IoError

\* The handler thread keeps running, and the client's input is finite.
SpecConn ==
    InitConn /\ [][NextConn]_vars /\ WF_vars(HandlerStep) /\ WF_vars(ClientClose)

----------------------------------------------------------------------------
(* The worker pool that main submits one job per accepted connection to     *)
(* (src/src/main.rs). A pool of n workers, each waiting on the shared job   *)
(* queue; execute enqueues a job; a worker that waits takes the job at the  *)
(* head of the queue and runs it to its end. A job is one handle_connection *)
(* and blocks until its connection ends. Teardown signals every worker to   *)
(* stop: a worker takes no further job, finishes the job it runs, and       *)
(* exits; teardown returns once every worker has exited.                    *)

\* let pool = ThreadPool::new(4);
PoolSize == 4

Workers == 1..pool_size

Jobs == 1..Len(job)

JobsIn(st) == {j \in Jobs : job[j] = st}

Idle(w) == worker[w] = 0

\* ThreadPool::new(n): n workers, all waiting; n = 0 is refused.
InitPool ==
    /\ Fresh("my.server")
    /\ DriverIdle
    /\ ConnIdle
    /\ pool_size \in 1..PoolSize
    /\ queue = <<>>
    /\ worker = [w \in 1..pool_size |-> 0]
    /\ job = <<>>
    /\ released = {}
    /\ teardown = "no"
    /\ gone = {}
    /\ in_progress = {}
    /\ submitted_then = 0

\* The jobs submitted after teardown was invoked.
Late == IF teardown = "no" THEN {} ELSE {j \in Jobs : j > submitted_then}

\* The workers that can take a job: their thread lives.
Able == Workers \ gone

\* pool.execute(|| {handle_connection(stream)}): the job joins the queue.
Execute ==
    /\ Len(job) < MaxJobs
    /\ job' = Append(job, "pending")
    /\ queue' = Append(queue, Len(job) + 1)
    /\ UNCHANGED <<fsmVars, drvVars, connVars, pool_size, worker, released, teardown, gone,
                   in_progress, submitted_then>>

\* A worker that takes the next job whether or not it is running one.
WorkerTakeWhileBusy(w) ==
    /\ teardown = "no"
    /\ w \in Able
    /\ queue # <<>>
    /\ worker' = [worker EXCEPT ![w] = Head(queue)]
    /\ job' = [job EXCEPT ![Head(queue)] = "running"]
    /\ queue' = Tail(queue)
    /\ UNCHANGED <<fsmVars, drvVars, connVars, pool_size, released, teardown, gone,
                   in_progress, submitted_then>>

\* A waiting worker takes the job at the head of the queue and starts it. A
\* worker signalled to stop takes no job.
WorkerTake(w) ==
    /\ teardown = "no"
    /\ w \in Able
    /\ Idle(w)
    /\ queue # <<>>
    /\ worker' = [worker EXCEPT ![w] = Head(queue)]
    /\ job' = [job EXCEPT ![Head(queue)] = "running"]
    /\ queue' = Tail(queue)
    /\ UNCHANGED <<fsmVars, drvVars, connVars, pool_size, released, teardown, gone,
                   in_progress, submitted_then>>

\* The connection of a running job ends: handle_connection leaves its loop.
Release(j) ==
    /\ job[j] = "running"
    /\ j \notin released
    /\ released' = released \cup {j}
    /\ UNCHANGED <<fsmVars, drvVars, connVars, pool_size, queue, worker, job, teardown,
                   gone, in_progress, submitted_then>>

\* The job of a worker returns; the worker waits on the queue again.
WorkerFinish(w) ==
    /\ ~Idle(w)
    /\ worker[w] \in released
    /\ job' = [job EXCEPT ![worker[w]] = "done"]
    /\ worker' = [worker EXCEPT ![w] = 0]
    /\ UNCHANGED <<fsmVars, drvVars, connVars, pool_size, queue, released, teardown, gone,
                   in_progress, submitted_then>>

\* The job of a worker panics: a read, a write or a flush of its connection
\* failed inside the loop of handle_connection (unwrap, expect). The panic
\* unwinds the thread of the worker; the pool does not catch it.
JobPanics(w) ==
    /\ ~Idle(w)
    /\ worker[w] \notin released
    /\ job' = [job EXCEPT ![worker[w]] = "failed"]
    /\ worker' = [worker EXCEPT ![w] = 0]
    /\ gone' = gone \cup {w}
    /\ UNCHANGED <<fsmVars, drvVars, connVars, pool_size, queue, released, teardown,
                   in_progress, submitted_then>>

\* Teardown is invoked: every worker is signalled to stop.
TeardownBegin ==
    /\ teardown = "no"
    /\ teardown' = "begun"
    /\ in_progress' = JobsIn("running")
    /\ submitted_then' = Len(job)
    /\ UNCHANGED <<fsmVars, drvVars, connVars, pool_size, queue, worker, job, released, gone>>

\* A signalled worker that runs no job exits.
WorkerExit(w) ==
    /\ teardown = "begun"
    /\ w \in Able
    /\ Idle(w)
    /\ gone' = gone \cup {w}
    /\ UNCHANGED <<fsmVars, drvVars, connVars, pool_size, queue, worker, job, released,
                   teardown, in_progress, submitted_then>>

\* A teardown that returns without joining the workers.
TeardownReturnAtOnce ==
    /\ teardown = "begun"
    /\ teardown' = "returned"
    /\ UNCHANGED <<fsmVars, drvVars, connVars, pool_size, queue, worker, job, released, gone,
                   in_progress, submitted_then>>

\* Every worker was joined: teardown returns.
TeardownReturn ==
    /\ teardown = "begun"
    /\ gone = Workers
    /\ teardown' = "returned"
    /\ UNCHANGED <<fsmVars, drvVars, connVars, pool_size, queue, worker, job, released, gone,
                   in_progress, submitted_then>>

NextPool ==
    \/ Execute
    \/ \E w \in Workers : WorkerTake(w)
    \/ \E j \in Jobs : Release(j)
    \/ \E w \in Workers : WorkerFinish(w)
    \/ \E w \in Workers : JobPanics(w)
    \/ TeardownBegin
    \/ \E w \in Workers : WorkerExit(w)
    \/ TeardownReturn

SpecPool == InitPool /\ [][NextPool]_vars

----------------------------------------------------------------------------
(* The transition table of the specification, for stating the claims.      *)

Keywords == {HELO, EHLO, MAIL_FROM, RCPT_TO, DATA, QUIT}

\* The keywords the table accepts in each state.
TableAccepts(st) ==
    CASE st = "New"      -> {HELO, EHLO}
      [] st = "Hello"    -> {MAIL_FROM}
      [] st = "MailFrom" -> {RCPT_TO}
      [] st = "RcptTo"   -> {RCPT_TO, DATA}
      [] st = "Data"     -> {QUIT}
      [] st = "Quit"     -> {}

HasKeyword(l, ks) ==
    \E u \in {to_uppercase(trim(l))} : \E k \in ks : starts_with(u, k)

\* A command line the table does not accept in state st.
OutOfOrder(st, l) == HasKeyword(l, Keywords) /\ ~HasKeyword(l, TableAccepts(st))

\* The place of a state in New < Greeted < MailFrom < RcptTo < Data < Done.
Ord(st) == CHOOSE i \in 1..Len(States) : States[i] = st

Rejected == ret' = Some("Unknown command") /\ current_state' = current_state /\ mail' = mail

\* The step is a call of process_line, on the line now in line.
IsCall == line' # None /\ ProcessLine(line'[1])

\* C3 as stated: in every state, an out-of-order command line is answered
\* Unknown command and leaves the state and the envelope unchanged.
C3_OutOfOrderRejectedEverywhere ==
    [][(IsCall /\ OutOfOrder(current_state, line'[1])) => Rejected]_vars

\* C3 amended: in every state but Data an out-of-order command line is answered
\* Unknown command and leaves the state and the envelope unchanged; in Data it
\* is taken as body text: appended raw to data, no response, state still Data.
C3_OutOfOrderRejectedOutsideData ==
    [][(IsCall /\ OutOfOrder(current_state, line'[1])) =>
          IF current_state = "Data"
          THEN /\ ret' = None
               /\ current_state' = "Data"
               /\ mail' = [mail EXCEPT !.data =
                              IF @ = None THEN line' ELSE Some(@[1] \o line'[1])]
          ELSE Rejected]_vars

\* MAIL FROM before HELO was answered Unknown command; nothing is set.
C3_Witness ==
    /\ current_state = "New"
    /\ line = Some("MAIL FROM: x\n")
    /\ ret = Some("Unknown command")
    /\ mail = MailNew

\* C4: a step keeps the state or moves it to its immediate successor, and
\* never leaves Done.
C4_StrictlyForward ==
    [][/\ Ord(current_state') \in {Ord(current_state), Ord(current_state) + 1}
       /\ current_state = "Quit" => current_state' = "Quit"]_vars

\* A line was processed in Done and the machine stayed in Done.
C4_Witness ==
    /\ current_state = "Quit"
    /\ line # None
    /\ ~starts_with(to_uppercase(trim(line[1])), QUIT)

\* C5: the machine is finished only in Done; Done is entered only from Data,
\* by a QUIT line; and a finished machine has accepted HELO, MAIL FROM,
\* RCPT TO and DATA.
C5_FinishedOnlyByQuitInData ==
    /\ [](is_finished(current_state) <=>
            (current_state = "Quit" /\ {"HELO", "MAIL FROM", "RCPT TO", "DATA"} \subseteq accepted))
    /\ [][(current_state' = "Quit" /\ current_state # "Quit") =>
            /\ current_state = "Data"
            /\ line' # None
            /\ starts_with(to_uppercase(trim(line'[1])), QUIT)]_vars

\* The machine finished on a lower-case quit.
C5_Witness == is_finished(current_state) /\ line = Some("quit") /\ ret = Some("221 Bye\n")

\* C6: a dot line in Data is answered 250 Ok: queued as N, N the decimal
\* length of the data accumulated so far (0 when there is none), and changes
\* neither the state nor the envelope.
C6_QueuedAsDataLength ==
    [][(IsCall /\ current_state = "Data" /\ trim(line'[1]) = ".") =>
          /\ ret' = Some("250 Ok: queued as "
                         \o ToString(IF mail.data = None THEN 0 ELSE Len(mail.data[1]))
                         \o "\n")
          /\ current_state' = "Data"
          /\ mail' = mail]_vars

\* Two body lines, five characters, then the dot.
C6_Witness ==
    /\ current_state = "Data"
    /\ mail.data = Some("hi\nab")
    /\ line = Some(".\n")
    /\ ret = Some("250 Ok: queued as 5\n")

\* C7: every response process_line returns ends with a newline.
C7_ResponsesNewlineTerminated ==
    ret # None => (Len(ret[1]) > 0 /\ SubSeq(ret[1], Len(ret[1]), Len(ret[1])) = "\n")

\* C8: greeting() returns 220 <server-name> simple-smtp every time and changes
\* neither the state nor the envelope nor what process_line will answer.
C8_GreetingPure ==
    /\ [](banner # None => banner = Some("220 " \o server_name \o " simple-smtp\n"))
    /\ [][Greeting => UNCHANGED <<current_state, server_name, mail, line, ret, accepted>>]_vars

\* greeting() was called and the session ran to its end all the same.
C8_Witness ==
    /\ banner = Some("220 my.server simple-smtp\n")
    /\ current_state = "Quit"
    /\ mail.data # None

\* The response the session of the specification expects to a line of kind k.
ExpectedResponse(k) ==
    CASE k = "helo" -> Some("250 " \o server_name \o "\n")
      [] k = "mail" -> Some("250 Ok\n")
      [] k = "rcpt" -> Some("250 Ok\n")
      [] k = "data" -> Some("354 End data with <CR><LF>.<CR><LF>\n")
      [] k = "body" -> None
      [] k = "dot"  -> Some("250 Ok: queued as " \o ToString(Len(body)) \o "\n")
      [] k = "quit" -> Some("221 Bye\n")

\* C1: in a well-ordered session the responses are 250 <server-name>, 250 Ok,
\* 250 Ok per RCPT TO, 354 End data with <CR><LF>.<CR><LF>, none per body
\* line, 250 Ok: queued as N (N the length of the body lines), 221 Bye; and
\* is_finished() is true after the QUIT line, which is the last, and only then.
C1_SessionResponses ==
    /\ Len(resps) = Len(sent)
    /\ Len(fin) = Len(sent)
    /\ \A i \in 1..Len(sent) :
          /\ resps[i] = ExpectedResponse(sent[i])
          /\ fin[i] = (sent[i] = "quit")
    /\ is_finished(current_state) = (Last(sent) = "quit")

\* A whole session with two recipients and a body of ten characters or more.
C1_Witness ==
    /\ Last(sent) = "quit"
    /\ Count(sent, "rcpt") = 2
    /\ Len(body) >= 10
    /\ is_finished(current_state)

\* C2: after a whole session the envelope holds exactly what was supplied:
\* hello the HELO argument, mailFrom the MAIL FROM argument, rcptTo the
\* RCPT TO arguments in order and nothing else, data the body lines.
C2_EnvelopeReflectsArguments ==
    Last(sent) = "quit" => mail = args

\* The handler is out of its loop: it returned, or it panicked.
LoopEnded == pc \in {"done", "panicked"}

\* A read returned the end of the input, or a line was processed, answered
\* and checked and the machine is finished.
EofOrFinished ==
    \/ data_size = Some(0)
    \/ is_finished(current_state) /\ pc \notin {"write", "flush", "check"}

\* C9 as stated: the loop ends exactly when a read returned the end of the
\* input or is_finished() is true after a processed line; no line is passed to
\* process_line once the machine is finished; and the loop ends eventually.
C9_LoopEndsOnlyOnEofOrFinished ==
    /\ [](LoopEnded <=> EofOrFinished)
    /\ [](pc = "process" => ~is_finished(current_state))
    /\ <>LoopEnded

\* C9 amended: the loop ends exactly when a read returned the end of the
\* input, or is_finished() is true after a processed line, or a read, a write
\* or a flush failed (the handler panics); no line is passed to process_line
\* once the machine is finished; and on a finite input the loop ends.
C9_LoopEndsOnEofFinishedOrIoError ==
    /\ [](pc = "done" <=> (EofOrFinished /\ pc # "panicked"))
    /\ [][(pc' = "panicked" /\ pc # "panicked") =>
            pc \in {"greet", "greet_flush", "read", "write", "flush"}]_vars
    /\ [](pc = "process" => ~is_finished(current_state))
    /\ <>LoopEnded

\* The loop ended on QUIT while a later line of the client waits unread.
C9_Witness ==
    /\ pc = "done"
    /\ is_finished(current_state)
    /\ inbox # <<>>

\* No waiting worker has a job to take: the pool has settled.
Settled == queue = <<>> \/ \A w \in Workers : ~Idle(w)

\* C10: never more than N jobs run at once; once M > N jobs that all still
\* block are submitted and the pool has settled, exactly N run and M - N are
\* pending, in the queue; and a pending job starts only when fewer than N
\* jobs run, so with N running only after one of them has finished.
C10_AtMostNJobsRun ==
    /\ [](Cardinality(JobsIn("running")) <= pool_size)
    /\ []((Len(job) > pool_size /\ released = {} /\ Settled) =>
            /\ Cardinality(JobsIn("running")) = pool_size
            /\ Cardinality(JobsIn("pending")) = Len(job) - pool_size
            /\ Len(queue) = Len(job) - pool_size)
    /\ [][\A j \in Jobs : (job[j] = "pending" /\ job'[j] = "running") =>
            /\ Cardinality(JobsIn("running")) < pool_size
            /\ (j > pool_size => JobsIn("done") # {})]_vars

\* Six jobs on four workers: four run, the fifth started once one was done,
\* the sixth is still pending.
C10_Witness ==
    /\ pool_size = PoolSize
    /\ Len(job) = PoolSize + 2
    /\ job[PoolSize + 1] = "running"
    /\ job[PoolSize + 2] = "pending"
    /\ Cardinality(JobsIn("running")) = PoolSize
    /\ Cardinality(JobsIn("done")) = 1

\* A job has ended on its own: it returned once its connection had ended, or
\* its own panic ended it.
Ended(j) == (job[j] = "done" /\ j \in released) \/ job[j] = "failed"

\* C11: teardown does not return until every job that was running when it
\* began has ended on its own, no running job is ever taken from its worker
\* before its end, and no job submitted after teardown was invoked starts.
C11_TeardownWaitsForJobs ==
    /\ [](teardown = "returned" => \A j \in in_progress : Ended(j))
    /\ [][\A j \in Jobs : (job[j] = "running" /\ job'[j] # "running") =>
            \/ job'[j] = "done" /\ j \in released
            \/ job'[j] = "failed" /\ \E w \in Workers : worker[w] = j /\ JobPanics(w)]_vars
    /\ [](\A j \in Late : job[j] = "pending")

\* Teardown has returned; a job that ran when it began is done, and a job
\* submitted after it began is still pending.
C11_Witness ==
    /\ teardown = "returned"
    /\ in_progress \cap JobsIn("done") # {}
    /\ Late # {}

\* C12: a job that fails changes no other job and no other worker, and while
\* the pool is not torn down all N workers can still take jobs.
C12_FailureIsLocal ==
    /\ [][\A w \in Workers : JobPanics(w) =>
            /\ \A v \in Workers \ {w} : worker'[v] = worker[v] /\ (v \in gone' <=> v \in gone)
            /\ \A j \in Jobs \ {worker[w]} : job'[j] = job[j]
            /\ queue' = queue]_vars
    /\ [](teardown = "no" => Cardinality(Able) = pool_size)

\* The text of data: empty while data is unset.
DataText(m) == IF m.data = None THEN "" ELSE m.data[1]

\* C13: in Data every line has exactly one of three outcomes, in this order:
\* a line that trims to the dot is answered 250 Ok: queued as N and the state
\* stays Data; otherwise a QUIT line is answered 221 Bye, ends the session and
\* leaves data alone; otherwise the line as received, untrimmed, is appended
\* to data, the state stays Data, and there is no response.
C13_DataStateOutcomes ==
    [][(IsCall /\ current_state = "Data") =>
         IF trim(line'[1]) = "."
         THEN /\ ret' = Some("250 Ok: queued as " \o ToString(Len(DataText(mail))) \o "\n")
              /\ current_state' = "Data"
         ELSE IF HasKeyword(line'[1], {QUIT})
         THEN /\ ret' = Some("221 Bye\n")
              /\ current_state' = "Quit"
              /\ mail'.data = mail.data
         ELSE /\ mail' = [mail EXCEPT !.data = Some(DataText(mail) \o line'[1])]
              /\ current_state' = "Data"
              /\ ret' = None]_vars

\* A QUIT after a body line: the session is over and
\* data is what the body line left.
C13_Witness ==
    /\ current_state = "Quit"
    /\ line = Some("quit")
    /\ mail.data = Some("hi\n")

\* A call that appends a body line (in Data, neither the dot nor QUIT) at the
\* end of data as long as terminated is false, and that otherwise leaves data
\* as it is.
DataGrowsUntil(terminated) ==
    IF /\ ~terminated
       /\ current_state = "Data"
       /\ trim(line'[1]) # "."
       /\ ~HasKeyword(line'[1], {QUIT})
    THEN mail'.data = Some(DataText(mail) \o line'[1])
    ELSE mail'.data = mail.data

\* C14 as stated: data grows by appending each body line at its end, with no
\* delimiter, and once a dot has been answered no later line changes data.
C14_DataFrozenAfterDot ==
    [][IsCall => DataGrowsUntil("DOT" \in accepted)]_vars

\* C14, amended: data grows by appending each body line at its end, with no
\* delimiter, before and after a dot alike (the dot leaves the machine in
\* Data); only once QUIT has ended the session no later line changes data.
C14_DataAppendOnlyUntilQuit ==
    [][IsCall => DataGrowsUntil(current_state = "Quit")]_vars

\* ab, the dot, then hi: the line after the dot was appended.
C14_Witness ==
    /\ "DOT" \in accepted
    /\ line = Some("hi\n")
    /\ mail.data = Some("abhi\n")

\* What follows the keyword kw on the line l, trimmed.
Argument(l, kw) == trim(slice_from(trim(l), Len(kw)))

\* C15: a DATA line in RcptTo moves the machine to Data and is answered 354;
\* it appends its argument to rcpt_to if it has one, and a bare DATA line
\* leaves rcpt_to unchanged.
C15_BareDataKeepsRcptTo ==
    [][(IsCall /\ current_state = "RcptTo" /\ HasKeyword(line'[1], {DATA})) =>
         /\ current_state' = "Data"
         /\ ret' = Some("354 End data with <CR><LF>.<CR><LF>\n")
         /\ mail'.rcpt_to = IF Argument(line'[1], DATA) = ""
                            THEN mail.rcpt_to
                            ELSE Append(mail.rcpt_to, Argument(line'[1], DATA))]_vars

\* helo and mail_from, once set, keep their value over the call.
SetOnce == /\ (mail.helo # None => mail'.helo = mail.helo)
           /\ (mail.mail_from # None => mail'.mail_from = mail.mail_from)

\* The line of the call repeats a command whose field is already set.
Repeated ==
    \/ mail.helo # None /\ HasKeyword(line'[1], {HELO, EHLO})
    \/ mail.mail_from # None /\ HasKeyword(line'[1], {MAIL_FROM})

\* C16 as stated: helo and mail_from never change once set, and a repeated
\* HELO/EHLO or MAIL FROM is answered Unknown command with the envelope (and
\* the state) unchanged.
C16_RepeatedAlwaysRejected ==
    [][IsCall => (SetOnce /\ (Repeated => Rejected))]_vars

\* C16, amended: helo and mail_from never change once set; outside Data a
\* repeated HELO/EHLO or MAIL FROM is answered Unknown command with the
\* envelope unchanged, and in Data it is body text: appended to data and not
\* answered.
C16_SetOnceRepeatedRejectedOutsideData ==
    [][IsCall =>
         /\ SetOnce
         /\ (Repeated =>
               IF current_state # "Data"
               THEN Rejected
               ELSE /\ mail' = [mail EXCEPT !.data = Some(DataText(mail) \o line'[1])]
                    /\ ret' = None)]_vars

\* A second MAIL FROM, with another address, was rejected and the first
\* address is still there.
C16_Witness ==
    /\ line = Some("mail from:Y")
    /\ mail.mail_from = Some("x")
    /\ ret = Some("Unknown command")

\* p is a prefix of q.
IsPrefix(p, q) == Len(p) <= Len(q) /\ SubSeq(q, 1, Len(p)) = p

\* C17: every call leaves the previous rcpt_to as a prefix of the new one,
\* and a RCPT TO line in MailFrom or RcptTo appends exactly one entry, its
\* trimmed argument, at the end, whether or not rcpt_to already holds it.
C17_RcptToOnlyGrows ==
    [][IsCall =>
         /\ IsPrefix(mail.rcpt_to, mail'.rcpt_to)
         /\ (current_state \in {"MailFrom", "RcptTo"} /\ HasKeyword(line'[1], {RCPT_TO}) =>
               mail'.rcpt_to = Append(mail.rcpt_to, Argument(line'[1], RCPT_TO)))]_vars

\* The same recipient sent twice: two entries, in the order sent.
C17_Witness ==
    /\ mail.rcpt_to = <<"y", "y">>
    /\ line = Some("RCPT TO: y\n")
    /\ current_state = "RcptTo"

\* C18: the envelope agrees with the state: helo is set iff the state is not
\* New; mail_from is set iff the state is MailFrom, RcptTo, Data or Quit;
\* rcpt_to is non-empty iff the state is RcptTo, Data or Quit; data is set
\* only in Data or Quit; so the fields are populated in the order helo,
\* mail_from, rcpt_to, data, and DATA is accepted only after a RCPT TO.
C18_EnvelopeAgreesWithState ==
    /\ mail.helo # None <=> current_state # "New"
    /\ mail.mail_from # None <=> current_state \in {"MailFrom", "RcptTo", "Data", "Quit"}
    /\ mail.rcpt_to # <<>> <=> current_state \in {"RcptTo", "Data", "Quit"}
    /\ mail.data # None => current_state \in {"Data", "Quit"}
    /\ mail.mail_from # None => mail.helo # None
    /\ mail.rcpt_to # <<>> => mail.mail_from # None
    /\ mail.data # None => mail.rcpt_to # <<>>
    /\ "DATA" \in accepted => "RCPT TO" \in accepted

\* DATA was accepted and no body line has come yet: data is still unset in
\* Data, the other three fields are set.
C18_Witness ==
    /\ current_state = "Data"
    /\ "DATA" \in accepted
    /\ mail.data = None
    /\ mail.helo # None /\ mail.mail_from # None /\ mail.rcpt_to # <<>>

\* The keyword tokens, each in three spellings that differ in letter case
\* only.
KeywordSpellings ==
    {{"HELO", "helo", "Helo"}, {"EHLO", "ehlo", "eHLo"},
     {"MAIL FROM:", "mail from:", "Mail From:"}, {"RCPT TO:", "rcpt to:", "rCPT tO:"},
     {"DATA", "data", "Data"}, {"QUIT", "quit", "qUIT"}}

\* The lines that differ from l in the letter case of its keyword token only:
\* the token, after the leading whitespace, spelled in each of its ways.
Recased(l) ==
    LET f == first_kept(l, 1)
        tail == slice_from(l, f - 1)
    IN  UNION {{SubSeq(l, 1, f - 1) \o sp \o slice_from(tail, Len(sp)) : sp \in S} :
                 S \in {T \in KeywordSpellings : \E sp \in T : starts_with(tail, sp)}}

\* A call on the line v from the state before the step gives the response,
\* the state and the envelope the step gave.
SameOutcome(v) ==
    \E r \in {process_line(current_state, mail, server_name, v)} :
        r.ret = ret' /\ r.state = current_state' /\ r.mail = mail'

\* A call on the line v from the state before the step appends v, as
\* received, to data, and gives the response and the state the step gave.
StoredAsReceived(v) ==
    \E r \in {process_line(current_state, mail, server_name, v)} :
        /\ r.ret = ret' /\ r.state = current_state'
        /\ r.mail = [mail EXCEPT !.data = Some(DataText(mail) \o v)]

\* An accepted HELO/EHLO, MAIL FROM or RCPT TO stores what follows its
\* keyword, trimmed, in the letter case received.
ArgumentStored ==
    /\ (current_state = "New" /\ HasKeyword(line'[1], {HELO, EHLO}) =>
          mail'.helo = Some(Argument(line'[1], HELO)))
    /\ (current_state = "Hello" /\ HasKeyword(line'[1], {MAIL_FROM}) =>
          mail'.mail_from = Some(Argument(line'[1], MAIL_FROM)))
    /\ (current_state \in {"MailFrom", "RcptTo"} /\ HasKeyword(line'[1], {RCPT_TO}) =>
          mail'.rcpt_to = Append(mail.rcpt_to, Argument(line'[1], RCPT_TO)))

\* C20 as stated: in every state, the lines that differ from the line of a
\* call in the letter case of the keyword only give the same response, next
\* state and envelope, and an accepted argument is stored trimmed, in the
\* letter case received.
C20_KeywordCaseNeverMatters ==
    [][IsCall => (ArgumentStored /\ \A v \in Recased(line'[1]) : SameOutcome(v))]_vars

\* C20, amended: so it is in every state but Data, and in Data for QUIT; any
\* other keyword line in Data is body text, stored in data as received, so
\* there the two spellings give the same response and state and envelopes
\* that differ in data by the spelling.
C20_KeywordCaseMattersOnlyInBody ==
    [][IsCall =>
         /\ ArgumentStored
         /\ \A v \in Recased(line'[1]) :
              IF current_state = "Data" /\ ~HasKeyword(line'[1], {QUIT})
              THEN StoredAsReceived(v)
              ELSE SameOutcome(v)]_vars

\* A lower-case ehlo was accepted as EHLO is, and Bob kept his capital.
C20_Witness ==
    /\ line = Some("ehlo Bob\n")
    /\ current_state = "Hello"
    /\ mail.helo = Some("Bob")

RECURSIVE Answers(_)
\* The responses among what process_line returned, in order.
Answers(rs) ==
    IF rs = <<>> THEN <<>>
    ELSE IF Head(rs) = None THEN Answers(Tail(rs))
    ELSE <<Head(rs)[1]>> \o Answers(Tail(rs))

\* What the client is to see once the handler has dealt with the lines read:
\* the greeting, then the response of each line that has one.
Due == <<greeting(server_name)>> \o Answers(returned)

\* C19: the greeting is written once and is on the wire before the first
\* read; whenever the handler reads, and when it has ended normally, the
\* client has seen exactly the greeting and then, in the order of the lines,
\* the response of each line process_line answered, nothing being left in
\* the writer; at any time the client has seen a prefix of that; and a body
\* line in Data adds no response.
C19_ResponsesInOrderFlushedBeforeRead ==
    /\ [](data_size # None => wire # <<>> /\ wire[1] = greeting(server_name))
    /\ [](\A i \in 2..Len(wire \o wbuf) : (wire \o wbuf)[i] # greeting(server_name))
    /\ [](pc \in {"read", "process", "check", "done"} => wire = Due /\ wbuf = <<>>)
    /\ [](IsPrefix(wire, Due))
    /\ [](Len(returned) = nsent - Len(inbox) - (IF pc = "process" THEN 1 ELSE 0))
    /\ [][(Process /\ current_state = "Data" /\ trim(buf) # "."
             /\ ~HasKeyword(buf, {QUIT})) =>
                Answers(returned') = Answers(returned)]_vars

\* A whole session with one body line has ended: six lines read, five
\* answered, and the client has seen the greeting and the five responses.
C19_Witness ==
    /\ pc = "done"
    /\ is_finished(current_state)
    /\ Len(returned) = 6
    /\ returned[5] = None
    /\ wire = <<"220 my.server simple-smtp\n", "250 my.server\n", "250 Ok\n", "250 Ok\n",
                "354 End data with <CR><LF>.<CR><LF>\n", "221 Bye\n">>

====
